---- MODULE Spec2Model ----
(***************************************************************************)
(* Model of oxide-proxy: the SpliceBuffer / Splicer future of splice.rs    *)
(* and the accept loop and IoTask wrapper of main.rs.                      *)
(*                                                                         *)
(* A Splicer is identified by the connection it reads from; every pump     *)
(* variable is a function over Conns.  Cursors are 0-based as in the       *)
(* source, so the byte at cursor i is data[i + 1].                         *)
(***************************************************************************)
EXTENDS Integers, Sequences, FiniteSets, TLC

\* ---------------------------------------------------------------- bounds
\* BUFFER_SIZE is 4096 in splice.rs:15; it is scaled down here.
BUFFER_SIZE == 3
\* Longest byte stream a connection's peer sends (larger than BUFFER_SIZE).
MaxPayload == 4
\* Connections accepted, and longest byte stream per connection, in the
\* specification of one relay.
MaxRelayConns == 2
MaxRelayPayload == 1
\* Byte values are 0..MaxByte.
MaxByte == 1
\* Number of connections the listener accepts.
MaxConns == 4
\* shutdown() reports NotReady at most MaxShutdownCalls - 1 times in a row.
MaxShutdownCalls == 3
\* Longest line over the full alphabet, and longest rest of a line after
\* one of the CapHeads, that the extractors of irc.rs are applied to.
MaxVerbLen == 7
MaxCapTail == 8

Conns == 1..MaxConns
Bytes == 0..MaxByte
\* Content of a cell of the mem::uninitialized() array never stored to.
Uninit == -1
\* prev = None
None == 0

SeqsUpTo(n) == UNION {[1..k -> Bytes] : k \in 0..n}

VARIABLES
    prev,          \* main.rs: the pending-peer slot (None or a connection)
    accepted,      \* number of connections delivered by incoming()
    spawned,       \* sequence of <<r, w>>: the Splicers spawned, in order
    task,          \* IoTask of the Splicer reading c: none/running/done/failed
    notified,      \* the task was unparked and will be polled
    rdWait,        \* reactor will notify the task when c is readable
    wrWait,        \* reactor will notify the task when its dest is writable
    buf,           \* Splicer.buf
    eof_r,         \* Splicer.eof_r
    eof_w,         \* Splicer.eof_w
    payload,       \* bytes the peer of connection c sends, then closes
    srcPos,        \* how many of them Splicer c has received
    written,       \* bytes Splicer c has written to its destination
    ops,           \* I/O calls made by the last poll of Splicer c
    shutdownCalls, \* number of w.shutdown() calls made by Splicer c
    shutdownDone,  \* number of w.shutdown() calls that returned Ready
    finished,      \* number of polls of Splicer c that returned Ready
    afterPeerFail, \* I/O calls by c after the opposite direction failed
    irc            \* irc.rs: a line, and what the extractors returned for it

pumpVars == <<prev, accepted, spawned, task, notified, rdWait, wrWait, buf,
              eof_r, eof_w, payload, srcPos, written, ops, shutdownCalls,
              shutdownDone, finished, afterPeerFail>>

vars == <<pumpVars, irc>>

\* ------------------------------------------------------------ SpliceBuffer
SpliceBuffer_new ==
    [data |-> [i \in 1..BUFFER_SIZE |-> Uninit],
     start |-> 0, end |-> 0,
     parked_not_empty |-> FALSE, parked_not_full |-> FALSE]

is_empty(b) == b.start >= b.end

\* Mutant of is_full: the comparison made strict the wrong way.
is_full_strict(b) == b.end > BUFFER_SIZE

\* Mutant of is_full: full while no byte of a filled buffer was written out.
is_full_byCount(b) == b.end - b.start >= BUFFER_SIZE

is_full(b) == b.end >= BUFFER_SIZE

\* Returns the buffer (with the waiter registered) and whether it is Ready.
poll_not_empty(b) ==
    IF is_empty(b)
    THEN [buf |-> [b EXCEPT !.parked_not_empty = TRUE], ready |-> FALSE]
    ELSE [buf |-> b, ready |-> TRUE]

\* Mutant of poll_not_full: Ready whatever the buffer holds.
poll_not_full_always(b) == [buf |-> b, ready |-> TRUE]

poll_not_full(b) ==
    IF is_full(b)
    THEN [buf |-> [b EXCEPT !.parked_not_full = TRUE], ready |-> FALSE]
    ELSE [buf |-> b, ready |-> TRUE]

\* Mutant of ReadableSlice: the slice starts at 0 instead of start.
ReadableSlice_fromZero(b) == SubSeq(b.data, 1, b.end)

\* &self.data[self.start..self.end]
ReadableSlice(b) == SubSeq(b.data, b.start + 1, b.end)

\* Mutant of WritableSlice: the slice starts at start instead of end.
WritableSlice_fromStart(b) == [lo |-> b.start, len |-> BUFFER_SIZE - b.start]

\* &mut self.data[self.end..]: first cursor and length of the slice.
WritableSlice(b) == [lo |-> b.end, len |-> BUFFER_SIZE - b.end]

\* What the destination can observe of a slice: an uninitialized cell reads
\* as any byte.
Resolve(s) ==
    {t \in [1..Len(s) -> Bytes] : \A i \in 1..Len(s) : s[i] # Uninit => t[i] = s[i]}

\* Outcomes of one transport call: WouldBlock, an error, or Ok(n).
IOOutcomes ==
    {[kind |-> "WouldBlock", n |-> 0], [kind |-> "Err", n |-> 0]}
      \cup {[kind |-> "Ok", n |-> k] : k \in 0..BUFFER_SIZE}

\* dest.write(slice) returns Ok(n) only with n <= len(slice).
DestWriteOutcomes(len) == {wo \in IOOutcomes : wo.n <= len}

\* src.read(slice) returns Ok(n) with n <= len(slice) and n <= the bytes the
\* peer still has to send; Ok(0) only for a zero-length slice or at end of
\* input.
SrcReadOutcomes(len, avail) ==
    {ro \in IOOutcomes :
        /\ ro.n <= len
        /\ ro.n <= Len(avail)
        /\ (ro.kind = "Ok" /\ ro.n = 0) => (len = 0 \/ Len(avail) = 0)}

\* One I/O call of a step: its result, the cursors and the registered
\* waiters before (0) and after (1) the SpliceBuffer method that made it,
\* and the number of unpark() calls that method made on a registered waiter.
OpRec(op, res, n, b0, b1) ==
    [op |-> op, res |-> res, n |-> n,
     s0 |-> b0.start, e0 |-> b0.end, s1 |-> b1.start, e1 |-> b1.end,
     pe0 |-> b0.parked_not_empty, pf0 |-> b0.parked_not_full,
     pe1 |-> b1.parked_not_empty, pf1 |-> b1.parked_not_full,
     wakes |-> 0]

\* unpark_not_full that wakes the waiter and leaves it registered.
unpark_not_full_kept(b) ==
    IF ~is_full(b)
    THEN [buf |-> b, wakes |-> IF b.parked_not_full THEN 1 ELSE 0]
    ELSE [buf |-> b, wakes |-> 0]

\* if !self.is_full() { self.parked_not_full.take().map(|t| t.unpark()); }
unpark_not_full(b) ==
    IF ~is_full(b)
    THEN [buf |-> [b EXCEPT !.parked_not_full = FALSE],
          wakes |-> IF b.parked_not_full THEN 1 ELSE 0]
    ELSE [buf |-> b, wakes |-> 0]

\* if !self.is_empty() { self.parked_not_empty.take().map(|t| t.unpark()); }
unpark_not_empty(b) ==
    IF ~is_empty(b)
    THEN [buf |-> [b EXCEPT !.parked_not_empty = FALSE],
          wakes |-> IF b.parked_not_empty THEN 1 ELSE 0]
    ELSE [buf |-> b, wakes |-> 0]

\* SpliceBuffer::write.  wo is the outcome of dest.write, out what the
\* destination observes of the bytes it accepts.
write(b, wo, out) ==
    LET pe == poll_not_empty(b) IN
    IF ~pe.ready
    THEN [buf |-> pe.buf, res |-> "NotReady", n |-> 0, out |-> <<>>,
          woke |-> FALSE, wait |-> FALSE, ops |-> <<>>]
    ELSE IF wo.kind = "WouldBlock"
    THEN [buf |-> b, res |-> "NotReady", n |-> 0, out |-> <<>>,
          woke |-> FALSE, wait |-> TRUE,
          ops |-> <<OpRec("write", "NotReady", 0, b, b)>>]
    ELSE IF wo.kind = "Err"
    THEN [buf |-> b, res |-> "Err", n |-> 0, out |-> <<>>,
          woke |-> FALSE, wait |-> FALSE,
          ops |-> <<OpRec("write", "Err", 0, b, b)>>]
    ELSE
    LET b1 == [b EXCEPT !.start = b.start + wo.n]
        b2 == IF b1.start = b1.end
              THEN [b1 EXCEPT !.start = 0, !.end = 0]
              ELSE b1
        b3 == poll_not_empty(b2).buf
        up == unpark_not_full(b3)
    IN [buf |-> up.buf, res |-> "Ready", n |-> wo.n, out |-> out,
        woke |-> up.wakes > 0, wait |-> FALSE,
        ops |-> <<[OpRec("write", "Ready", wo.n, b, up.buf)
                     EXCEPT !.wakes = up.wakes]>>]

\* Every way a call of SpliceBuffer::write on b can go.
Writes(b) ==
    LET slice == ReadableSlice(b) IN
    {write(b, w[1], w[2]) :
        w \in UNION {{<<wo, out>> : out \in Resolve(SubSeq(slice, 1, wo.n))} :
                        wo \in DestWriteOutcomes(Len(slice))}}

\* SpliceBuffer::read.  ro is the outcome of src.read, avail the bytes the
\* peer has sent or will send that were not received yet.
read(b, ro, avail) ==
    LET pf == poll_not_full(b) IN
    IF ~pf.ready
    THEN [buf |-> pf.buf, res |-> "NotReady", n |-> 0,
          woke |-> FALSE, wait |-> FALSE, ops |-> <<>>]
    ELSE IF ro.kind = "WouldBlock"
    THEN [buf |-> b, res |-> "NotReady", n |-> 0,
          woke |-> FALSE, wait |-> TRUE,
          ops |-> <<OpRec("read", "NotReady", 0, b, b)>>]
    ELSE IF ro.kind = "Err"
    THEN [buf |-> b, res |-> "Err", n |-> 0,
          woke |-> FALSE, wait |-> FALSE,
          ops |-> <<OpRec("read", "Err", 0, b, b)>>]
    ELSE
    LET slice == WritableSlice(b)
        b1 == [b EXCEPT
                 !.data = SubSeq(b.data, 1, slice.lo)
                            \o SubSeq(avail, 1, ro.n)
                            \o SubSeq(b.data, slice.lo + ro.n + 1, BUFFER_SIZE),
                 !.end = b.end + ro.n]
        b2 == poll_not_full(b1).buf
        up == unpark_not_empty(b2)
    IN [buf |-> up.buf, res |-> "Ready", n |-> ro.n,
        woke |-> up.wakes > 0, wait |-> FALSE,
        ops |-> <<[OpRec("read", "Ready", ro.n, b, up.buf)
                     EXCEPT !.wakes = up.wakes]>>]

\* Every way a call of SpliceBuffer::read on b can go.
Reads(b, avail) ==
    {read(b, ro, avail) : ro \in SrcReadOutcomes(WritableSlice(b).len, avail)}

\* ----------------------------------------------------------------- Splicer
\* Outcomes of w.shutdown().
ShutdownOutcomes == {"Ready", "NotReady", "Err"}

\* Mutant of Splicer_finish: eof_w is set at end of input without looking
\* at the buffer.
Splicer_finish_noDrain(sp, rd, wr, so) ==
    LET eof_r1 == sp.eof_r \/ (rd.res = "Ready" /\ rd.n = 0)
        woke1  == rd.woke \/ (rd.res = "Ready" /\ rd.n # 0)
        woke2  == woke1 \/ wr.woke \/ wr.res = "Ready"
        eof_w1 == sp.eof_w \/ eof_r1
        shut   == eof_r1 /\ eof_w1
    IN [buf |-> wr.buf, eof_r |-> eof_r1, eof_w |-> eof_w1,
        nread |-> rd.n, out |-> wr.out, woke |-> woke2,
        rdWait |-> rd.wait,
        wrWait |-> wr.wait \/ (shut /\ so = "NotReady"),
        ops |-> rd.ops \o wr.ops \o
                (IF shut
                 THEN <<OpRec("shutdown", so, 0, wr.buf, wr.buf)>>
                 ELSE <<>>),
        res |-> IF shut THEN so ELSE "NotReady"]

\* Mutant of Splicer_finish: no task::park().unpark() after a write that
\* returned Ready.
Splicer_finish_noWake(sp, rd, wr, so) ==
    LET eof_r1 == sp.eof_r \/ (rd.res = "Ready" /\ rd.n = 0)
        woke1  == rd.woke \/ (rd.res = "Ready" /\ rd.n # 0)
        woke2  == woke1 \/ wr.woke
        eof_w1 == sp.eof_w \/ (eof_r1 /\ is_empty(wr.buf))
        shut   == eof_r1 /\ eof_w1
    IN [buf |-> wr.buf, eof_r |-> eof_r1, eof_w |-> eof_w1,
        nread |-> rd.n, out |-> wr.out, woke |-> woke2,
        rdWait |-> rd.wait,
        wrWait |-> wr.wait \/ (shut /\ so = "NotReady"),
        ops |-> rd.ops \o wr.ops \o
                (IF shut
                 THEN <<OpRec("shutdown", so, 0, wr.buf, wr.buf)>>
                 ELSE <<>>),
        res |-> IF shut THEN so ELSE "NotReady"]

\* Splicer_finish that wakes its task after a read of bytes only: a write
\* that returned Ready wakes nothing.
Splicer_finish_wakeOnRead(sp, rd, wr, so) ==
    LET eof_r1 == sp.eof_r \/ (rd.res = "Ready" /\ rd.n = 0)
        woke1  == rd.res = "Ready" /\ rd.n # 0
        eof_w1 == sp.eof_w \/ (eof_r1 /\ is_empty(wr.buf))
        shut   == eof_r1 /\ eof_w1
    IN [buf |-> wr.buf, eof_r |-> eof_r1, eof_w |-> eof_w1,
        nread |-> rd.n, out |-> wr.out, woke |-> woke1,
        rdWait |-> rd.wait,
        wrWait |-> wr.wait \/ (shut /\ so = "NotReady"),
        ops |-> rd.ops \o wr.ops \o
                (IF shut
                 THEN <<OpRec("shutdown", so, 0, wr.buf, wr.buf)>>
                 ELSE <<>>),
        res |-> IF shut THEN so ELSE "NotReady"]

\* Splicer::poll after self.buf.read went as rd and self.buf.write as wr:
\* lines 156-167, with so the outcome of w.shutdown() if it is called.
Splicer_finish(sp, rd, wr, so) ==
    LET eof_r1 == sp.eof_r \/ (rd.res = "Ready" /\ rd.n = 0)
        woke1  == rd.woke \/ (rd.res = "Ready" /\ rd.n # 0)
        woke2  == woke1 \/ wr.woke \/ wr.res = "Ready"
        eof_w1 == sp.eof_w \/ (eof_r1 /\ is_empty(wr.buf))
        shut   == eof_r1 /\ eof_w1
    IN [buf |-> wr.buf, eof_r |-> eof_r1, eof_w |-> eof_w1,
        nread |-> rd.n, out |-> wr.out, woke |-> woke2,
        rdWait |-> rd.wait,
        wrWait |-> wr.wait \/ (shut /\ so = "NotReady"),
        ops |-> rd.ops \o wr.ops \o
                (IF shut
                 THEN <<OpRec("shutdown", so, 0, wr.buf, wr.buf)>>
                 ELSE <<>>),
        res |-> IF shut THEN so ELSE "NotReady"]

\* Splicer::poll after self.buf.read went as rd: lines 151-167.
Splicer_drain(sp, rd, souts) ==
    LET eof_r1 == sp.eof_r \/ (rd.res = "Ready" /\ rd.n = 0)
        woke1  == rd.woke \/ (rd.res = "Ready" /\ rd.n # 0)
        skip   == [buf |-> rd.buf, res |-> "Skipped", n |-> 0, out |-> <<>>,
                   woke |-> FALSE, wait |-> FALSE, ops |-> <<>>]
    IN UNION {
         IF wr.res = "Err"
         THEN {[buf |-> wr.buf, eof_r |-> eof_r1, eof_w |-> sp.eof_w,
                nread |-> rd.n, out |-> <<>>, woke |-> woke1,
                rdWait |-> rd.wait, wrWait |-> FALSE,
                ops |-> rd.ops \o wr.ops, res |-> "Err"]}
         ELSE {Splicer_finish(sp, rd, wr, so) : so \in souts}
         : wr \in IF ~sp.eof_w THEN Writes(rd.buf) ELSE {skip}}

\* Mutant of Splicer_poll: the error of self.buf.read is not propagated
\* (no try!), the step goes on to drain.
Splicer_poll_readErrIgnored(sp, avail, souts) ==
    LET skip == [buf |-> sp.buf, res |-> "Skipped", n |-> 0, woke |-> FALSE,
                 wait |-> FALSE, ops |-> <<>>]
    IN UNION {Splicer_drain(sp, rd, souts)
              : rd \in IF ~sp.eof_r THEN Reads(sp.buf, avail) ELSE {skip}}

\* Splicer::poll on the splicer sp = [buf, eof_r, eof_w]: the set of the
\* step's possible results, over every outcome of the src.read, dest.write
\* and w.shutdown calls it makes.  avail are the source bytes not received
\* yet, souts the outcomes w.shutdown() can have.
Splicer_poll(sp, avail, souts) ==
    LET skip == [buf |-> sp.buf, res |-> "Skipped", n |-> 0, woke |-> FALSE,
                 wait |-> FALSE, ops |-> <<>>]
    IN UNION {
         IF rd.res = "Err"
         THEN {[buf |-> rd.buf, eof_r |-> sp.eof_r, eof_w |-> sp.eof_w,
                nread |-> 0, out |-> <<>>, woke |-> FALSE,
                rdWait |-> FALSE, wrWait |-> FALSE, ops |-> rd.ops,
                res |-> "Err"]}
         ELSE Splicer_drain(sp, rd, souts)
         : rd \in IF ~sp.eof_r THEN Reads(sp.buf, avail) ELSE {skip}}

NumOps(os, op) == Cardinality({i \in 1..Len(os) : os[i].op = op})
NumRes(os, op, res) ==
    Cardinality({i \in 1..Len(os) : os[i].op = op /\ os[i].res = res})

\* The Splicer that writes to the connection c reads from, if any.
Opposite(c) ==
    {d \in Conns : \E i \in 1..Len(spawned), j \in 1..Len(spawned) :
                      /\ spawned[i][1] = c /\ spawned[j][1] = d
                      /\ spawned[i][2] = d /\ spawned[j][2] = c}

\* Mutant of IoTask_poll: the task is kept after its future returned Ready.
IoTask_poll_keptAfterReady(res) ==
    CASE res = "NotReady" -> "running"
      [] res = "Ready"    -> "running"
      [] res = "Err"      -> "failed"

\* Mutant of IoTask_poll: an error is reported as completion.
IoTask_poll_errAsReady(res) ==
    CASE res = "NotReady" -> "running"
      [] res = "Ready"    -> "done"
      [] res = "Err"      -> "done"

\* IoTask::poll: what becomes of the task for each result of task.poll().
IoTask_poll(res) ==
    CASE res = "NotReady" -> "running"
      [] res = "Ready"    -> "done"
      [] res = "Err"      -> "failed"

\* Mutant of Polled: a task that returned an error is still polled.
Polled_afterErr(c) == task[c] \in {"running", "failed"} /\ notified[c]

\* The executor polls a spawned future while it has neither completed nor
\* failed, and only after it was notified.
Polled(c) == task[c] = "running" /\ notified[c]

\* One poll of the spawned IoTask(Splicer) reading connection c.
Poll(c) ==
    /\ Polled(c)
    /\ \E r \in Splicer_poll(
                  [buf |-> buf[c], eof_r |-> eof_r[c], eof_w |-> eof_w[c]],
                  SubSeq(payload[c], srcPos[c] + 1, Len(payload[c])),
                  IF shutdownCalls[c] + 1 < MaxShutdownCalls
                  THEN ShutdownOutcomes
                  ELSE ShutdownOutcomes \ {"NotReady"}) :
          /\ buf' = [buf EXCEPT ![c] = r.buf]
          /\ eof_r' = [eof_r EXCEPT ![c] = r.eof_r]
          /\ eof_w' = [eof_w EXCEPT ![c] = r.eof_w]
          /\ srcPos' = [srcPos EXCEPT ![c] = @ + r.nread]
          /\ written' = [written EXCEPT ![c] = @ \o r.out]
          /\ ops' = [ops EXCEPT ![c] = r.ops]
          /\ shutdownCalls' =
                 [shutdownCalls EXCEPT ![c] = @ + NumOps(r.ops, "shutdown")]
          /\ shutdownDone' =
                 [shutdownDone EXCEPT
                    ![c] = @ + NumRes(r.ops, "shutdown", "Ready")]
          /\ finished' =
                 [finished EXCEPT ![c] = @ + (IF r.res = "Ready" THEN 1 ELSE 0)]
          /\ task' = [task EXCEPT ![c] = IoTask_poll(r.res)]
          /\ notified' = [notified EXCEPT ![c] = r.woke]
          /\ rdWait' = [rdWait EXCEPT ![c] = @ \/ r.rdWait]
          /\ wrWait' = [wrWait EXCEPT ![c] = @ \/ r.wrWait]
          /\ afterPeerFail' =
                 [afterPeerFail EXCEPT
                    ![c] = @ \/ (r.ops # <<>> /\
                                 \E d \in Opposite(c) : task[d] = "failed")]
    /\ UNCHANGED <<prev, accepted, spawned, payload, irc>>

\* The reactor notifies the task that connection c became readable.
Readable(c) ==
    /\ task[c] = "running"
    /\ rdWait[c]
    /\ rdWait' = [rdWait EXCEPT ![c] = FALSE]
    /\ notified' = [notified EXCEPT ![c] = TRUE]
    /\ UNCHANGED <<prev, accepted, spawned, task, wrWait, buf, eof_r, eof_w,
                   payload, srcPos, written, ops, shutdownCalls, shutdownDone,
                   finished, afterPeerFail, irc>>

\* The reactor notifies the task that its destination became writable.
Writable(c) ==
    /\ task[c] = "running"
    /\ wrWait[c]
    /\ wrWait' = [wrWait EXCEPT ![c] = FALSE]
    /\ notified' = [notified EXCEPT ![c] = TRUE]
    /\ UNCHANGED <<prev, accepted, spawned, task, rdWait, buf, eof_r, eof_w,
                   payload, srcPos, written, ops, shutdownCalls, shutdownDone,
                   finished, afterPeerFail, irc>>

\* Splicer::new
Splicer_new == [buf |-> SpliceBuffer_new, eof_r |-> FALSE, eof_w |-> FALSE]

\* Mutant of Accept: the slot is read but not taken, so it keeps the waiting
\* connection after pairing it.
Accept_slotNotTaken ==
    /\ accepted < MaxConns
    /\ LET sock == accepted + 1
           p    == prev
       IN /\ accepted' = sock
          /\ IF p # None
             THEN /\ prev' = p
                  /\ spawned' = spawned \o << <<p, sock>>, <<sock, p>> >>
                  /\ task' = [task EXCEPT ![p] = "running", ![sock] = "running"]
                  /\ notified' = [notified EXCEPT ![p] = TRUE, ![sock] = TRUE]
                  /\ buf' = [buf EXCEPT ![p] = Splicer_new.buf,
                                        ![sock] = Splicer_new.buf]
                  /\ eof_r' = [eof_r EXCEPT ![p] = Splicer_new.eof_r,
                                            ![sock] = Splicer_new.eof_r]
                  /\ eof_w' = [eof_w EXCEPT ![p] = Splicer_new.eof_w,
                                            ![sock] = Splicer_new.eof_w]
             ELSE /\ prev' = sock
                  /\ UNCHANGED <<spawned, task, notified, buf, eof_r, eof_w>>
    /\ UNCHANGED <<rdWait, wrWait, payload, srcPos, written, ops,
                   shutdownCalls, shutdownDone, finished, afterPeerFail, irc>>

\* The closure of incoming().for_each in main, run for the next connection.
Accept ==
    /\ accepted < MaxConns
    /\ LET sock == accepted + 1
           p    == prev
       IN /\ accepted' = sock
          /\ IF p # None
             THEN /\ prev' = None
                  /\ spawned' = spawned \o << <<p, sock>>, <<sock, p>> >>
                  /\ task' = [task EXCEPT ![p] = "running", ![sock] = "running"]
                  /\ notified' = [notified EXCEPT ![p] = TRUE, ![sock] = TRUE]
                  /\ buf' = [buf EXCEPT ![p] = Splicer_new.buf,
                                        ![sock] = Splicer_new.buf]
                  /\ eof_r' = [eof_r EXCEPT ![p] = Splicer_new.eof_r,
                                            ![sock] = Splicer_new.eof_r]
                  /\ eof_w' = [eof_w EXCEPT ![p] = Splicer_new.eof_w,
                                            ![sock] = Splicer_new.eof_w]
             ELSE /\ prev' = sock
                  /\ UNCHANGED <<spawned, task, notified, buf, eof_r, eof_w>>
    /\ UNCHANGED <<rdWait, wrWait, payload, srcPos, written, ops,
                   shutdownCalls, shutdownDone, finished, afterPeerFail, irc>>

\* irc for a line on which no extractor of irc.rs has been called yet:
\* called is the set of the extractors that have returned, verb and cap
\* what they returned.
Uncalled(line, is_server) ==
    [line |-> line, is_server |-> is_server, called |-> {},
     verb |-> [a |-> 0, b |-> 0, reads |-> {}],
     cap |-> [match |-> FALSE, sub |-> <<0, 0>>, trailing |-> <<0, 0>>,
              reads |-> {}, slices |-> {}]]

\* main never calls the extractors.
NoLine == Uncalled(<<>>, FALSE)

\* What every specification starts from, but for task, notified, payload
\* and irc.
InitCommon ==
    /\ prev = None
    /\ accepted = 0
    /\ spawned = <<>>
    /\ rdWait = [c \in Conns |-> FALSE]
    /\ wrWait = [c \in Conns |-> FALSE]
    /\ buf = [c \in Conns |-> Splicer_new.buf]
    /\ eof_r = [c \in Conns |-> Splicer_new.eof_r]
    /\ eof_w = [c \in Conns |-> Splicer_new.eof_w]
    /\ srcPos = [c \in Conns |-> 0]
    /\ written = [c \in Conns |-> <<>>]
    /\ ops = [c \in Conns |-> <<>>]
    /\ shutdownCalls = [c \in Conns |-> 0]
    /\ shutdownDone = [c \in Conns |-> 0]
    /\ finished = [c \in Conns |-> 0]
    /\ afterPeerFail = [c \in Conns |-> FALSE]

\* ------------------------------------------------- one Splicer on its own
\* Splicer::new(from, to) spawned as one task; connection 1 is `from`, whose
\* peer sends any payload of up to MaxPayload bytes.
Init ==
    /\ InitCommon
    /\ irc = NoLine
    /\ task = [c \in Conns |-> IF c = 1 THEN "running" ELSE "none"]
    /\ notified = [c \in Conns |-> c = 1]
    /\ \E p \in SeqsUpTo(MaxPayload) :
          payload = [c \in Conns |-> IF c = 1 THEN p ELSE <<>>]

Next ==
    \E c \in Conns :
        \/ Poll(c)
        \/ Readable(c)
        \/ Writable(c)

Spec == Init /\ [][Next]_vars

\* ------------------------------------------------------- the accept loop
\* main: nothing accepted yet, prev = None.  The peers close without
\* sending anything, so that every spawned Splicer only has to see end of
\* input and shut its destination down.
AcceptInit ==
    /\ InitCommon
    /\ irc = NoLine
    /\ task = [c \in Conns |-> "none"]
    /\ notified = [c \in Conns |-> FALSE]
    /\ payload = [c \in Conns |-> <<>>]

AcceptNext ==
    \/ Accept
    \/ \E c \in Conns :
        \/ Poll(c)
        \/ Readable(c)
        \/ Writable(c)

AcceptSpec == AcceptInit /\ [][AcceptNext]_vars

\* ---------------------------------------------- one relay of two peers
\* Payloads of the relay specification: up to MaxRelayPayload zero bytes.
RelayPayloads == {[i \in 1..k |-> 0] : k \in 0..MaxRelayPayload}

\* main, accepting the first MaxRelayConns connections, each of whose peers
\* sends one of the RelayPayloads.
RelayInit ==
    /\ InitCommon
    /\ irc = NoLine
    /\ task = [c \in Conns |-> "none"]
    /\ notified = [c \in Conns |-> FALSE]
    /\ \E f \in [1..MaxRelayConns -> RelayPayloads] :
          payload = [c \in Conns |-> IF c <= MaxRelayConns THEN f[c] ELSE <<>>]

RelayNext ==
    \/ (accepted < MaxRelayConns /\ Accept)
    \/ \E c \in Conns :
        \/ Poll(c)
        \/ Readable(c)
        \/ Writable(c)

RelaySpec == RelayInit /\ [][RelayNext]_vars

\* ------------------------------------------------------------------ irc.rs
\* A line is a sequence of one-character strings; indices are 0-based as in
\* the source, so line[i] of the source is line[i + 1] here.  A scan is the
\* index it has reached and the set of the indices of line it has read.
Scan(i, reads) == [i |-> i, reads |-> reads]

\* line[k]; reading outside the line is a fault (a panic in the source).
OutOfBounds == "out-of-bounds"
At(line, k) == IF k \in 0..(Len(line) - 1) THEN line[k + 1] ELSE OutOfBounds

\* &line[a..b]; an ill-formed range is a fault.
Slice(line, a, b) ==
    IF 0 <= a /\ a <= b /\ b <= Len(line)
    THEN SubSeq(line, a + 1, b)
    ELSE <<OutOfBounds>>

\* while i < line.len() && line[i] == b' ' { i += 1; }
RECURSIVE SkipSpaces(_, _)
SkipSpaces(line, s) ==
    IF s.i < Len(line)
    THEN IF At(line, s.i) = " "
         THEN SkipSpaces(line, Scan(s.i + 1, s.reads \cup {s.i}))
         ELSE Scan(s.i, s.reads \cup {s.i})
    ELSE s

\* while i < line.len() && line[i] != b' ' { i += 1; }
RECURSIVE SkipToken(_, _)
SkipToken(line, s) ==
    IF s.i < Len(line)
    THEN IF At(line, s.i) # " "
         THEN SkipToken(line, Scan(s.i + 1, s.reads \cup {s.i}))
         ELSE Scan(s.i, s.reads \cup {s.i})
    ELSE s

\* if i < line.len() && line[i] == ch { skip the token; skip the spaces }
SkipMarked(line, s, ch) ==
    IF s.i < Len(line)
    THEN IF At(line, s.i) = ch
         THEN SkipSpaces(line, SkipToken(line, Scan(s.i, s.reads \cup {s.i})))
         ELSE Scan(s.i, s.reads \cup {s.i})
    ELSE s

\* SkipLead that takes a leading '@' token for the verb.
SkipLead_tagsKept(line) ==
    SkipMarked(line, SkipSpaces(line, Scan(0, {})), ":")

\* The common start of extract_verb and extract_cap: initial spaces, tags,
\* prefix.
SkipLead(line) ==
    SkipMarked(line,
               SkipMarked(line, SkipSpaces(line, Scan(0, {})), "@"),
               ":")

\* extract_verb: the range [a, b) of line it returns, and what it read.
extract_verb(line) ==
    LET s == SkipLead(line)
        e == SkipToken(line, s)
    IN [a |-> s.i, b |-> e.i, reads |-> e.reads]

\* ColonHere that takes any ':' for the start of the trailing part.
ColonHere_anyColon(line, j) == At(line, j) = ":"

\* line[j-1] == b' ' && line[j] == b':'
ColonHere(line, j) == At(line, j - 1) = " " /\ At(line, j) = ":"

\* The loop of extract_cap over the rest of the line after the subcommand:
\* t = [j, i, k, reads].
RECURSIVE TrailScan(_, _)
TrailScan(line, t) ==
    IF t.j < Len(line)
    THEN IF t.k = 0 /\ ColonHere(line, t.j)
         THEN [t EXCEPT !.k = t.j + 1, !.reads = @ \cup {t.j - 1, t.j}]
         ELSE TrailScan(line,
                [j |-> t.j + 1,
                 i |-> IF At(line, t.j) # " " THEN t.j ELSE t.i,
                 k |-> t.k,
                 reads |-> t.reads \cup {t.j - 1, t.j}])
    ELSE t

\* BackToSpace that stays on the last character of the line's last token.
BackToSpace_stays(line, s) == s

\* while j > 0 && line[j] != b' ' { j -= 1; }
RECURSIVE BackToSpace(_, _)
BackToSpace(line, s) ==
    IF s.i > 0
    THEN IF At(line, s.i) # " "
         THEN BackToSpace(line, Scan(s.i - 1, s.reads \cup {s.i}))
         ELSE Scan(s.i, s.reads \cup {s.i})
    ELSE s

CAP_SP == <<"C", "A", "P", " ">>

\* SkipClient that skips nothing in a line from a server.
SkipClient_never(line, s, is_server) == s

\* if is_server { skip the client identifier; skip the spaces }
SkipClient(line, s, is_server) ==
    IF is_server THEN SkipSpaces(line, SkipToken(line, s)) ELSE s

\* NotCap that slices four bytes without looking at the length of the line.
NotCap_unchecked(line, i) ==
    [none |-> Slice(line, i, i + 4) # CAP_SP,
     reads |-> i..(i + 3), slices |-> {<<i, i + 4>>}]

\* NotCap that takes "CAP" for the verb whatever follows it.
NotCap_noSpace(line, i) ==
    IF i + 3 > Len(line)
    THEN [none |-> TRUE, reads |-> {}, slices |-> {}]
    ELSE [none |-> Slice(line, i, i + 3) # <<"C", "A", "P">>,
          reads |-> i..(i + 2), slices |-> {<<i, i + 3>>}]

\* if i + 4 > line.len() || &line[i..i+4] != b"CAP " { return None; }
\* with what the condition read and sliced.
NotCap(line, i) ==
    IF i + 4 > Len(line)
    THEN [none |-> TRUE, reads |-> {}, slices |-> {}]
    ELSE [none |-> Slice(line, i, i + 4) # CAP_SP,
          reads |-> i..(i + 3), slices |-> {<<i, i + 4>>}]

\* extract_cap: None, or the ranges of the subcommand and of the trailing
\* part; with what it read and the ranges it sliced.
extract_cap(line, is_server) ==
    LET s == SkipLead(line)
        c == NotCap(line, s.i) IN
    IF c.none
    THEN [match |-> FALSE, sub |-> <<0, 0>>, trailing |-> <<0, 0>>,
          reads |-> s.reads \cup c.reads, slices |-> c.slices]
    ELSE
    LET s1 == SkipSpaces(line, Scan(s.i + 4, s.reads \cup (s.i..(s.i + 3))))
        s2 == SkipClient(line, s1, is_server)
        e  == SkipToken(line, s2)
        t  == TrailScan(line, [j |-> e.i, i |-> 0, k |-> 0, reads |-> e.reads])
        bk == BackToSpace(line, Scan(t.i, t.reads))
        trailing == IF t.k # 0 THEN <<t.k, Len(line)>>
                    ELSE IF t.i # 0 THEN <<bk.i + 1, t.i + 1>>
                    ELSE <<0, 0>>
    IN [match |-> TRUE, sub |-> <<s2.i, e.i>>, trailing |-> trailing,
        reads |-> IF t.k = 0 /\ t.i # 0 THEN bk.reads ELSE t.reads,
        slices |-> {<<s.i, s.i + 4>>, <<s2.i, e.i>>, trailing}]

\* Lines the extractors are applied to: every line of up to MaxVerbLen
\* characters over space, '@', ':' and 'x'; and every line made of one of
\* the CapHeads followed by up to MaxCapTail characters over space, ':'
\* and 'x'.
LinesOver(alphabet, n) == UNION {[1..k -> alphabet] : k \in 0..n}

CapHeads ==
    {<<"C", "A", "P">>,
     <<"c", "a", "p">>,
     <<" ", "@", "x", " ", ":", "x", " ", " ", "C", "A", "P">>}

Lines ==
    LinesOver({" ", "@", ":", "x"}, MaxVerbLen)
      \cup {h \o t : h \in CapHeads, t \in LinesOver({" ", ":", "x"}, MaxCapTail)}

\* A caller holding one line calls extract_verb on it.
ExtractVerb ==
    /\ "extract_verb" \notin irc.called
    /\ irc' = [irc EXCEPT !.verb = extract_verb(irc.line),
                          !.called = @ \cup {"extract_verb"}]
    /\ UNCHANGED pumpVars

\* A caller holding one line calls extract_cap on it.
ExtractCap ==
    /\ "extract_cap" \notin irc.called
    /\ irc' = [irc EXCEPT !.cap = extract_cap(irc.line, irc.is_server),
                          !.called = @ \cup {"extract_cap"}]
    /\ UNCHANGED pumpVars

IrcInit ==
    /\ InitCommon
    /\ task = [c \in Conns |-> "none"]
    /\ notified = [c \in Conns |-> FALSE]
    /\ payload = [c \in Conns |-> <<>>]
    /\ \E l \in Lines, sv \in BOOLEAN : irc = Uncalled(l, sv)

IrcNext == ExtractVerb \/ ExtractCap

IrcSpec == IrcInit /\ [][IrcNext]_vars

\* ------------------------------------------------------------- fairness
\* A poll in which every transport call the step makes succeeds: the source
\* delivers bytes or end of input, the destination accepts at least one
\* byte, shutdown completes.
PollGood(c) ==
    /\ Poll(c)
    /\ \A i \in 1..Len(ops'[c]) :
          /\ ops'[c][i].res = "Ready"
          /\ ops'[c][i].op = "write" => ops'[c][i].n > 0

\* The reactor delivers every pending readiness notification, the executor
\* polls every notified task, and a transport that is polled again and again
\* does not refuse for ever.
Fairness(c) ==
    /\ WF_vars(Readable(c))
    /\ WF_vars(Writable(c))
    /\ SF_vars(PollGood(c))

\* The single Splicer of Init, reading connection 1, under fairness.
LiveSpec == Init /\ [][Next]_vars /\ Fairness(1)

\* ------------------------------------------------------------ properties
Received(c) == SubSeq(payload[c], 1, srcPos[c])
Buffered(c) == SubSeq(buf[c].data, buf[c].start + 1, buf[c].end)
HasOp(c, op, res) ==
    \E i \in 1..Len(ops[c]) : ops[c][i].op = op /\ ops[c][i].res = res

TypeOK ==
    /\ prev \in Conns \cup {None}
    /\ \A c \in Conns :
        /\ task[c] \in {"none", "running", "done", "failed"}
        /\ buf[c].start \in 0..BUFFER_SIZE
        /\ buf[c].end \in 0..BUFFER_SIZE

\* C1: the bytes already written to the destination followed by the
\* buffer's readable region [start, end) are exactly the bytes received from
\* the source so far: nothing is duplicated, dropped or reordered.
C1_BytesPreserved ==
    \A c \in Conns : written[c] \o Buffered(c) = Received(c)

\* C1 witness: more bytes than the buffer holds were received, some are
\* written, some still buffered, and a transport call reported not-ready.
C1_Witness ==
    /\ srcPos[1] > BUFFER_SIZE
    /\ written[1] # <<>>
    /\ Buffered(1) # <<>>
    /\ rdWait[1] /\ wrWait[1]

\* C2: under fair scheduling and a destination that keeps accepting, every
\* pump that does not fail eventually has written the exact payload.
C2_PayloadDelivered ==
    <>(\A c \in Conns : task[c] = "failed" \/ written[c] = payload[c])

\* C2 witness: a payload longer than the buffer was delivered in full.
C2_Witness ==
    /\ Len(payload[1]) > BUFFER_SIZE
    /\ written[1] = payload[1]
    /\ task[1] = "running"

\* C3: 0 <= start <= end <= BUFFER_SIZE in every state, and no step changes
\* a byte of the readable region [start, end) of the state it starts from.
C3_BufferBounded ==
    /\ [](\A c \in Conns :
            /\ 0 <= buf[c].start
            /\ buf[c].start <= buf[c].end
            /\ buf[c].end <= BUFFER_SIZE)
    /\ [][\A c \in Conns :
            \A i \in (buf[c].start + 1)..buf[c].end :
                buf'[c].data[i] = buf[c].data[i]]_vars

\* C3 witness: the buffer is full behind a stalled destination, part of it
\* already written, and the source still has bytes to deliver.
C3_Witness ==
    /\ buf[1].end = BUFFER_SIZE
    /\ buf[1].start > 0
    /\ wrWait[1]
    /\ srcPos[1] < Len(payload[1])
    /\ HasOp(1, "write", "NotReady")

\* C4 as stated: w.shutdown() is invoked exactly once over the whole run
\* of a pump, and the pump reports Finished exactly once.
C4_ShutdownInvokedOnce ==
    \A c \in Conns :
        /\ shutdownCalls[c] <= 1
        /\ finished[c] <= 1
        /\ task[c] = "done" => (shutdownCalls[c] = 1 /\ finished[c] = 1)

\* C4 amended: every step taken with the source at end of input and the
\* buffer drained invokes w.shutdown(), so it is invoked again after each
\* not-ready result; it reports ready at most once, the pump reports
\* Finished at most once, and a finished pump has had exactly one of each.
C4_ShutdownCompletesOnce ==
    /\ [](\A c \in Conns :
            /\ shutdownDone[c] <= 1
            /\ finished[c] <= 1
            /\ shutdownDone[c] = finished[c]
            /\ task[c] = "done" <=> finished[c] = 1)
    /\ [][\A c \in Conns :
            (eof_r'[c] /\ buf'[c].start = buf'[c].end /\ Poll(c))
              => shutdownCalls'[c] = shutdownCalls[c] + 1]_vars

\* C4 witness: the pump finished after shutdown first reported not-ready
\* and was invoked again, with payload bytes relayed before.
C4_Witness ==
    /\ task[1] = "done"
    /\ shutdownCalls[1] > 1
    /\ written[1] # <<>>

\* C5: every call of w.shutdown() is made after a zero-length read, with
\* start = end, and with every byte received from the source written out.
C5_ShutdownOnlyWhenDrained ==
    \A c \in Conns :
        shutdownCalls[c] > 0 =>
            /\ eof_r[c]
            /\ srcPos[c] = Len(payload[c])
            /\ buf[c].start = buf[c].end
            /\ written[c] = Received(c)
            /\ \A i \in 1..Len(ops[c]) :
                  ops[c][i].op = "shutdown" => ops[c][i].s0 = ops[c][i].e0

\* C5 witness: shutdown is called in the very step that drains the last
\* buffered bytes, after a step that left bytes in the buffer at end of input.
C5_Witness ==
    /\ HasOp(1, "write", "Ready")
    /\ \E i \in 1..Len(ops[1]) : ops[1][i].op = "shutdown"
    /\ Len(ops[1]) = 2
    /\ written[1] # <<>>

\* C6: under fair scheduling with a source that reaches end of input and a
\* destination that keeps accepting, every pump eventually stops being
\* not-ready; and a pump reports completion only once it is Finished: end of
\* input seen, everything written, shutdown completed.
C6_EventuallyFinished ==
    /\ <>(\A c \in Conns : task[c] # "running")
    /\ [](\A c \in Conns :
            task[c] = "done" =>
                /\ eof_r[c] /\ eof_w[c]
                /\ written[c] = payload[c]
                /\ shutdownDone[c] = 1)

\* C6 witness: a pump that relayed more than a buffer of bytes is done.
C6_Witness ==
    /\ task[1] = "done"
    /\ Len(written[1]) > BUFFER_SIZE

\* C7: a step in which src.read or dest.write returned an error ends with
\* that call and returns the error (the task fails): no write or shutdown
\* after a read error, no shutdown after a write error, and the cursors are
\* those the failing call found.
C7_ErrorsSurface ==
    \A c \in Conns :
        \A i \in 1..Len(ops[c]) :
            (ops[c][i].op \in {"read", "write"} /\ ops[c][i].res = "Err") =>
                /\ task[c] = "failed"
                /\ i = Len(ops[c])
                /\ ops[c][i].op = "read" => i = 1
                /\ buf[c].start = ops[c][i].s0
                /\ buf[c].end = ops[c][i].e0

\* C7 witness: a write error in a step whose read had stored bytes, and
\* (in another run) a read error with bytes still buffered.
C7_Witness ==
    /\ task[1] = "failed"
    /\ HasOp(1, "write", "Err")
    /\ HasOp(1, "read", "Ready")
    /\ Buffered(1) # <<>>

\* The pump reading c is Finished: end of input seen, buffer drained,
\* destination shut down.
Finished(c) == eof_r[c] /\ eof_w[c] /\ shutdownDone[c] = 1

C10_PendingSlot ==
    LET pairs == accepted \div 2 IN
    /\ prev \in Conns \cup {None}
    /\ prev # None <=> accepted % 2 = 1
    /\ prev # None => (prev = accepted /\ task[prev] = "none")
    /\ Len(spawned) = 2 * pairs
    /\ \A k \in 1..pairs :
          /\ spawned[2 * k - 1] = <<2 * k - 1, 2 * k>>
          /\ spawned[2 * k] = <<2 * k, 2 * k - 1>>
    /\ \A c \in Conns :
          /\ task[c] # "none" <=> c <= 2 * pairs
          /\ Cardinality({i \in 1..Len(spawned) : spawned[i][1] = c}) <= 1
          /\ Cardinality({i \in 1..Len(spawned) : spawned[i][2] = c}) <= 1

\* C10 witness: a third connection waits in the slot after the first two
\* were paired and their relay has run.
C10_Witness ==
    /\ accepted = 3
    /\ prev = 3
    /\ spawned = << <<1, 2>>, <<2, 1>> >>
    /\ task[1] = "done"

\* ------------------------------------------------- the words of a line
\* A token of a line is a maximal run of characters other than space; these
\* definitions describe the tokens by their positions, without scanning.
MinOf(S) == CHOOSE x \in S : \A y \in S : x <= y
MaxOf(S) == CHOOSE x \in S : \A y \in S : x >= y

\* The 0-based positions where a token of line begins.
TokenStarts(line) ==
    {a \in 0..(Len(line) - 1) :
        line[a + 1] # " " /\ (a = 0 \/ line[a] = " ")}

\* The position just after the token that begins at a.
TokenEnd(line, a) ==
    MinOf({b \in (a + 1)..Len(line) : b = Len(line) \/ line[b + 1] = " "})

\* S without its first n elements.
RECURSIVE DropFirst(_, _)
DropFirst(S, n) ==
    IF n = 0 \/ S = {} THEN S ELSE DropFirst(S \ {MinOf(S)}, n - 1)

\* S without its first element when the token there begins with ch.
DropMarked(line, S, ch) ==
    IF S # {} /\ line[MinOf(S) + 1] = ch THEN DropFirst(S, 1) ELSE S

HasTags(line) ==
    TokenStarts(line) # {} /\ line[MinOf(TokenStarts(line)) + 1] = "@"
HasPrefix(line) ==
    LET S == DropMarked(line, TokenStarts(line), "@")
    IN S # {} /\ line[MinOf(S) + 1] = ":"

\* Where the tokens of line begin, from the verb on: all of them but one
\* leading '@' token and, after it, one ':' token.
FromVerb(line) ==
    DropMarked(line, DropMarked(line, TokenStarts(line), "@"), ":")

\* The range of the first token of S, or no range.
FirstToken(line, S) ==
    IF S = {} THEN {} ELSE {<<MinOf(S), TokenEnd(line, MinOf(S))>>}

\* C11: extract_verb returns the first token of the line that follows the
\* leading spaces, one optional token starting with '@' and one optional
\* token starting with ':', whatever comes after a space behind it; and it
\* returns an empty range when no token is left there.
C11_VerbIsFirstTokenAfterTagsAndPrefix ==
    "extract_verb" \in irc.called =>
        LET S == FromVerb(irc.line) IN
        IF S = {} THEN irc.verb.a = irc.verb.b
        ELSE <<irc.verb.a, irc.verb.b>> \in FirstToken(irc.line, S)

\* extract_verb has returned the verb of a line that has tags, a prefix, a
\* verb and more behind the verb.
C11_Witness ==
    /\ "extract_verb" \in irc.called
    /\ HasTags(irc.line)
    /\ HasPrefix(irc.line)
    /\ Cardinality(FromVerb(irc.line)) >= 2
    /\ irc.verb.a < irc.verb.b

\* The line has a token "CAP" where its verb is, and a space behind it.
IsCapLine(line) ==
    LET S == FromVerb(line) IN
    /\ S # {}
    /\ SubSeq(line, MinOf(S) + 1, TokenEnd(line, MinOf(S))) = <<"C", "A", "P">>
    /\ TokenEnd(line, MinOf(S)) < Len(line)

\* C12: extract_cap returns a match exactly for the lines whose verb, after
\* the leading spaces, tags and prefix, is the token "CAP" followed by a
\* space, whatever is_server is; for any other verb, for "cap", and for
\* "CAP" at the end of the line it returns None.
C12_MatchIffCapVerb ==
    "extract_cap" \in irc.called => (irc.cap.match <=> IsCapLine(irc.line))

\* extract_cap has matched a CAP line that has tags and a prefix, called as
\* for a server.
C12_Witness ==
    /\ "extract_cap" \in irc.called
    /\ irc.is_server
    /\ HasTags(irc.line)
    /\ HasPrefix(irc.line)
    /\ irc.cap.match

\* Where the tokens behind "CAP" begin, from the subcommand on: all of them
\* in a line from a client, all but the first in a line from a server.
FromSubcommand(line, is_server) ==
    DropFirst(FromVerb(line), IF is_server THEN 2 ELSE 1)

\* C13: in a match, the subcommand is the first token behind "CAP" when
\* is_server is false and the second one when it is true; it holds no
\* space, and it is empty only when the line has no such token.
C13_SubcommandIsFirstOrSecondToken ==
    ("extract_cap" \in irc.called /\ irc.cap.match) =>
        LET T == FromSubcommand(irc.line, irc.is_server) IN
        /\ IF T = {} THEN irc.cap.sub[1] = irc.cap.sub[2]
           ELSE irc.cap.sub \in FirstToken(irc.line, T)
        /\ \A k \in irc.cap.sub[1]..(irc.cap.sub[2] - 1) :
              At(irc.line, k) # " "

\* extract_cap, called as for a server, has returned the second of three
\* tokens behind "CAP".
C13_Witness ==
    /\ "extract_cap" \in irc.called
    /\ irc.cap.match
    /\ irc.is_server
    /\ Cardinality(FromSubcommand(irc.line, TRUE)) >= 2
    /\ irc.cap.sub[1] < irc.cap.sub[2]

\* The position just behind the subcommand: the end of the line when the
\* line has no subcommand.
SubcommandEnd(line, is_server) ==
    LET T == FromSubcommand(line, is_server) IN
    IF T = {} THEN Len(line) ELSE TokenEnd(line, MinOf(T))

\* The positions behind the subcommand of a space that a ':' follows.
ColonMarks(line, is_server) ==
    {p \in SubcommandEnd(line, is_server)..(Len(line) - 2) :
        line[p + 1] = " " /\ line[p + 2] = ":"}

\* C14: in a match where, behind the subcommand, some space is followed at
\* once by ':', the trailing part is all of the line behind the first such
\* ':', spaces included, however many tokens stand before it.
C14_TrailingAfterFirstColon ==
    ("extract_cap" \in irc.called /\ irc.cap.match
       /\ ColonMarks(irc.line, irc.is_server) # {}) =>
        irc.cap.trailing =
            <<MinOf(ColonMarks(irc.line, irc.is_server)) + 2, Len(irc.line)>>

\* extract_cap has returned a trailing part that holds a space and that
\* began behind a further token after the subcommand.
C14_Witness ==
    /\ "extract_cap" \in irc.called
    /\ irc.cap.match
    /\ ColonMarks(irc.line, irc.is_server) # {}
    /\ \E a \in FromSubcommand(irc.line, irc.is_server) :
          /\ a >= SubcommandEnd(irc.line, irc.is_server)
          /\ a < MinOf(ColonMarks(irc.line, irc.is_server))
    /\ \E k \in irc.cap.trailing[1]..(irc.cap.trailing[2] - 1) :
          At(irc.line, k) = " "

\* Where the tokens behind the subcommand begin.
BehindSubcommand(line, is_server) ==
    {a \in TokenStarts(line) : a >= SubcommandEnd(line, is_server)}

\* C15: in a match where, behind the subcommand, no space is followed at
\* once by ':', the trailing part is the last token of the line, without
\* the spaces around it, when some token stands behind the subcommand, and
\* an empty range when only spaces or nothing stand there.
C15_TrailingIsLastToken ==
    ("extract_cap" \in irc.called /\ irc.cap.match
       /\ ColonMarks(irc.line, irc.is_server) = {}) =>
        IF BehindSubcommand(irc.line, irc.is_server) = {}
        THEN irc.cap.trailing[1] = irc.cap.trailing[2]
        ELSE irc.cap.trailing =
                <<MaxOf(TokenStarts(irc.line)),
                  TokenEnd(irc.line, MaxOf(TokenStarts(irc.line)))>>

\* extract_cap has returned the last of two tokens behind the subcommand
\* of a line that ends with a space.
C15_Witness ==
    /\ "extract_cap" \in irc.called
    /\ irc.cap.match
    /\ ColonMarks(irc.line, irc.is_server) = {}
    /\ Cardinality(BehindSubcommand(irc.line, irc.is_server)) >= 2
    /\ irc.cap.trailing[1] < irc.cap.trailing[2]
    /\ irc.cap.trailing[2] < Len(irc.line)

\* [a, b) is a range of line.
InLine(line, r) == 0 <= r[1] /\ r[1] <= r[2] /\ r[2] <= Len(line)

\* C16: extract_verb and extract_cap never fault: every index of the line
\* they read is one of 0 .. len - 1, and every range they slice or return
\* satisfies 0 <= a <= b <= len; for any line, the empty one, one of spaces
\* only, and one that ends behind "CAP " or behind the client identifier
\* included.
C16_NoFault ==
    /\ "extract_verb" \in irc.called =>
          /\ irc.verb.reads \subseteq 0..(Len(irc.line) - 1)
          /\ InLine(irc.line, <<irc.verb.a, irc.verb.b>>)
    /\ "extract_cap" \in irc.called =>
          /\ irc.cap.reads \subseteq 0..(Len(irc.line) - 1)
          /\ \A r \in irc.cap.slices : InLine(irc.line, r)
          /\ irc.cap.match =>
                {irc.cap.sub, irc.cap.trailing} \subseteq irc.cap.slices

\* Both extractors have returned for a line from a server that ends right
\* behind the client identifier.
C16_Witness ==
    /\ irc.called = {"extract_verb", "extract_cap"}
    /\ irc.is_server
    /\ irc.cap.match
    /\ Cardinality(FromVerb(irc.line)) = 2
    /\ At(irc.line, Len(irc.line) - 1) # " "
    /\ irc.cap.sub[1] = Len(irc.line)

\* The I/O calls of the last step of c's Splicer that went as op and res.
OpsOf(c, op, res) ==
    {ops[c][i] : i \in {k \in 1..Len(ops[c]) :
                          ops[c][k].op = op /\ ops[c][k].res = res}}

\* C17: a write that completes and leaves the buffer not full clears the
\* registered "not full" waiter and wakes it exactly once; a read that
\* completes and leaves the buffer not empty clears the registered "not
\* empty" waiter and wakes it exactly once; so, between steps, a registered
\* "not full" waiter implies a full buffer and a registered "not empty"
\* waiter an empty buffer.
C17_WaitersClearedAndWokenOnce ==
    \A c \in Conns :
        /\ \A o \in OpsOf(c, "write", "Ready") :
              o.e1 < BUFFER_SIZE =>
                 /\ ~o.pf1
                 /\ o.wakes = (IF o.pf0 THEN 1 ELSE 0)
                 /\ o.pf0 => notified[c]
        /\ \A o \in OpsOf(c, "read", "Ready") :
              o.s1 < o.e1 =>
                 /\ ~o.pe1
                 /\ o.wakes = (IF o.pe0 THEN 1 ELSE 0)
                 /\ o.pe0 => notified[c]
        /\ buf[c].parked_not_full => is_full(buf[c])
        /\ buf[c].parked_not_empty => is_empty(buf[c])

\* The last step read into the empty buffer with a "not empty" waiter
\* registered, filled it, registered a "not full" waiter, and its write
\* drained the buffer and woke that waiter.
C17_Witness ==
    /\ \E o \in OpsOf(1, "read", "Ready") :
          o.pe0 /\ o.wakes = 1 /\ o.e1 = BUFFER_SIZE /\ o.pf1
    /\ \E o \in OpsOf(1, "write", "Ready") :
          o.pf0 /\ o.wakes = 1 /\ o.e1 = 0

\* The last step of c's Splicer woke its own task: it read bytes or its
\* write returned Ready.
SelfWoken(c) ==
    /\ notified[c]
    /\ \/ \E o \in OpsOf(c, "read", "Ready") : o.n > 0
       \/ OpsOf(c, "write", "Ready") # {}

\* The last step of c's Splicer ended with the transport not ready for its
\* read, its write or its shutdown, and waits for that transport.
TransportWait(c) ==
    \/ OpsOf(c, "read", "NotReady") # {} /\ rdWait[c]
    \/ OpsOf(c, "write", "NotReady") # {} /\ wrWait[c]
    \/ OpsOf(c, "shutdown", "NotReady") # {} /\ wrWait[c]

\* C18: no wake is missed: every step of a Splicer that reports NotReady
\* either woke its own task during the step or ended with the source read,
\* the destination write or the shutdown not ready on the transport; so a
\* Splicer that reported NotReady never waits on a waiter of the buffer
\* alone.
C18_NoMissedWake ==
    [][\A c \in Conns :
          (Poll(c) /\ task'[c] = "running") =>
              (SelfWoken(c)' \/ TransportWait(c)')]_vars

\* The last step reported NotReady without waking its task: its read found
\* the buffer full and registered a "not full" waiter, and its write found
\* the destination not ready.
C18_Witness ==
    /\ task[1] = "running"
    /\ ~notified[1]
    /\ buf[1].parked_not_full
    /\ OpsOf(1, "read", "Ready") = {}
    /\ OpsOf(1, "read", "NotReady") = {}
    /\ OpsOf(1, "write", "NotReady") # {}
    /\ wrWait[1]

\* The calls of src.read and dest.write of the last step of c's Splicer.
CallsOf(c, op) == {ops[c][i] : i \in {k \in 1..Len(ops[c]) : ops[c][k].op = op}}

\* C19: a buffer that has become full (end = BUFFER_SIZE) stays full until
\* it is drained completely: a step that begins with a full buffer does not
\* call the source; a write that delivers only a part of the readable
\* region leaves end = BUFFER_SIZE and wakes no "not full" waiter; end
\* changes only when start has reached end, to 0 together with start.
C19_FullUntilDrained ==
    [][\A c \in Conns :
          (Poll(c) /\ buf[c].end = BUFFER_SIZE) =>
              /\ CallsOf(c, "read")' = {}
              /\ \A o \in CallsOf(c, "write")' :
                    (o.res # "Ready" \/ o.s0 + o.n < o.e0) =>
                        /\ o.e1 = BUFFER_SIZE
                        /\ o.wakes = 0
                        /\ o.pf1 = o.pf0
              /\ \/ buf'[c].end = BUFFER_SIZE
                 \/ /\ buf'[c].start = 0
                    /\ buf'[c].end = 0
                    /\ \E o \in OpsOf(c, "write", "Ready")' :
                          o.s0 + o.n = o.e0]_vars

\* The last step began with a full buffer and more input to come: its read
\* registered a "not full" waiter without calling the source, and its write
\* delivered a part of the buffer, leaving it full and the waiter asleep.
C19_Witness ==
    /\ ~eof_r[1]
    /\ CallsOf(1, "read") = {}
    /\ \E o \in OpsOf(1, "write", "Ready") :
          /\ o.e0 = BUFFER_SIZE
          /\ o.n > 0
          /\ o.s1 < o.e1
          /\ o.e1 = BUFFER_SIZE
          /\ o.pf1
          /\ o.wakes = 0
    /\ srcPos[1] < Len(payload[1])

\* C20: src.read is only called with a writable region that is not empty
\* (end < BUFFER_SIZE) and before end of input was recorded, at most once a
\* step, so that a returned 0 means that the peer has sent everything and
\* closed, and no call of src.read follows it; dest.write is only called
\* with a readable region that is not empty (start < end).
C20_CallsHaveRoom ==
    [][\A c \in Conns :
          Poll(c) =>
              /\ \A o \in CallsOf(c, "read")' :
                    /\ o.e0 < BUFFER_SIZE
                    /\ ~eof_r[c]
                    /\ (o.res = "Ready" /\ o.n = 0) =>
                          /\ eof_r'[c]
                          /\ srcPos'[c] = Len(payload[c])
              /\ NumOps(ops'[c], "read") <= 1
              /\ \A o \in CallsOf(c, "write")' : o.s0 < o.e0]_vars

\* The last step read 0 from the source into a buffer that held bytes and
\* had room, recorded end of input, and wrote from the buffer.
C20_Witness ==
    /\ eof_r[1]
    /\ \E o \in OpsOf(1, "read", "Ready") :
          o.n = 0 /\ 0 < o.e0 /\ o.e0 < BUFFER_SIZE
    /\ \E o \in CallsOf(1, "write") : o.s0 < o.e0 /\ o.n > 0

====
